---- MODULE Spec2Model ----
(***************************************************************************)
(* Model of awsdeploy.py (AwsDeployExpert, the deployment pipeline) and of *)
(* example.py (main).  One run of deploy() over one configuration: the     *)
(* seven steps, the loops inside them, the calls they make to the test     *)
(* runner, the archive builder, S3 and CloudFormation, and the answers of  *)
(* those collaborators, which are chosen nondeterministically.             *)
(*                                                                         *)
(* Python's None is the string "None" where the value is a string, and a   *)
(* tagged record (NoneVal / Some) where it is a list.                       *)
(***************************************************************************)
EXTENDS Integers, Sequences, FiniteSets, TLC

\* ------------------------------------------------------------ bounds
MaxPackages  == 1
MaxStacks    == 1
MaxArtifacts == 1

\* ------------------------------------------------- program constants
Timeout      == 50
SleepSeconds == 5

AWS_CLOUDFORMATION_CREATE_COMPLETE    == "CREATE_COMPLETE"
AWS_CLOUDFORMATION_CREATE_IN_PROGRESS == "CREATE_IN_PROGRESS"

OptionNames ==
  {"runUnitTests", "makePackages", "uploadPackages", "createStacks",
   "collectStackOutputs", "uploadStaticArtifacts"}

DEFAULTS ==
  [runUnitTests |-> TRUE, makePackages |-> TRUE, uploadPackages |-> TRUE,
   createStacks |-> TRUE, collectStackOutputs |-> TRUE,
   uploadStaticArtifacts |-> FALSE]

\* class Status, and the None a function returns when it falls off its end
Status == {"OK", "FAILED", "SKIPPED"}

\* ------------------------------------------------------ Python values
None        == "None"
\* a truth test that takes a missing value for a value
NeverFalsy(x) == FALSE
Falsy(x)    == x = None
NoneVal     == [isNone |-> TRUE,  val |-> <<>>]
Some(s)     == [isNone |-> FALSE, val |-> s]
\* a truth test under which an empty list passes for a value
OnlyNoneIsFalsy(o) == o.isNone
FalsyList(o) == o.isNone \/ o.val = <<>>
EmptyDict   == [k \in {} |-> None]

\* ---------------------------------------------------- configurations
PackageNames == <<"package1.zip", "package2.zip", "package3.zip">>
StackNames   == <<"stack1", "stack2", "stack3">>
StaticPaths  == <<"static1/", "static2/", "static3/">>
BucketKey    == "BucketArn"

\* the files example.py shows under static/
StaticFiles  == <<"index.html", "readme.txt">>

PackageSpecs(n) ==
  { [name |-> PackageNames[n], srcS3Bucket |-> "srcbucket", srcS3Key |-> "key"],
    [name |-> PackageNames[n], srcS3Bucket |-> None,        srcS3Key |-> "key"] }

StackSpecs(n) ==
  { [name |-> StackNames[n], templatePath |-> "template.json", region |-> "region"],
    [name |-> StackNames[n], templatePath |-> "template.json", region |-> None] }

ArtifactSpecs(n) ==
  { [staticPath |-> StaticPaths[n], stackNameForS3Bucket |-> StackNames[1],
     outputKeyForS3Bucket |-> BucketKey],
    [staticPath |-> StaticPaths[n], stackNameForS3Bucket |-> StackNames[1],
     outputKeyForS3Bucket |-> None] }

\* the lists of length 0..max whose n-th element is drawn from F(n)
RECURSIVE ListsOf(_, _)
ListsOf(F(_), max) ==
  IF max = 0 THEN {<<>>}
  ELSE LET shorter == ListsOf(F, max - 1)
       IN  shorter \cup
           { Append(s, x) : s \in {t \in shorter : Len(t) = max - 1}, x \in F(max) }

\* "options" holds all six flags, or is absent and every default applies
OptionSets == [OptionNames -> BOOLEAN] \cup {EmptyDict}

\* sourcePath and libPath: neither, the sources alone, or both
Paths ==
  { [sourcePath |-> None,   libPath |-> None],
    [sourcePath |-> "src/", libPath |-> None],
    [sourcePath |-> "src/", libPath |-> "lib/"] }

Configs ==
  { [ options         |-> o,
      sourcePath      |-> p.sourcePath,
      libPath         |-> p.libPath,
      packages        |-> ps,
      stacks          |-> ss,
      staticArtifacts |-> as ] :
    o \in OptionSets, p \in Paths,
    ps \in ListsOf(PackageSpecs, MaxPackages),
    ss \in ListsOf(StackSpecs, MaxStacks),
    as \in ListsOf(ArtifactSpecs, MaxArtifacts) }

\* the output lists a CREATE_COMPLETE response may carry
OutputLists ==
  { <<>>,
    << [OutputKey |-> BucketKey, OutputValue |-> <<"arn", "bucket1">>] >>,
    << [OutputKey |-> "Other",   OutputValue |-> <<"x">>] >> }

\* what describe_stacks answers: a description, or it raises
Descriptions ==
  { [StackStatus |-> AWS_CLOUDFORMATION_CREATE_COMPLETE, Outputs |-> o] : o \in OutputLists }
  \cup { [StackStatus |-> AWS_CLOUDFORMATION_CREATE_IN_PROGRESS, Outputs |-> <<>>],
         [StackStatus |-> "ROLLBACK_COMPLETE", Outputs |-> <<>>] }

\* -------------------------------------------------------------- state
VARIABLES
  config,          \* AwsDeployExpert.config, fixed for the run
  state,           \* AwsDeployExpert.state
  cf_client,       \* AwsDeployExpert.cf_client
  s3_client,       \* AwsDeployExpert.s3_client
  pc,              \* where the run is
  step,            \* deploy(): index of the step in _get_deploy_steps()
  i,               \* index of the item a step's for loop is at
  j,               \* uploadDirectoryToS3Bucket: index of the file
  elapsedSeconds,  \* getStackOutputs local
  stackOutputs,    \* getStackOutputs local
  polled,          \* descriptions the current getStackOutputs call received
  slept,           \* time.sleep calls of the current getStackOutputs call
  invoked,         \* names of the steps applied so far, in order
  statuses,        \* what each applied step returned, in order
  calls,           \* calls to the module-level functions, in order
  exhausted,       \* stacks whose getStackOutputs loop ended on its condition
  exception,       \* the exception that escaped deploy(), or None
  result,          \* what deploy() returned, or None
  exitCode,        \* what main() returned, or -1
  tree,            \* makePySrcPackage: the files os.walk(pySrcPath) yields
  excludeDirs,     \* makePySrcPackage argument
  addInit,         \* makePySrcPackage argument
  libs,            \* addPackageLibs: the files os.walk(pyLibsPath) yields
  includeLibs,     \* addPackageLibs argument
  excludeLibs,     \* addPackageLibs argument
  archive,         \* the entries of the archive zipPackageName, in order
  before,          \* the entries the archive had when addPackageLibs was called
  fileIndex,       \* index of the file the walk is at
  zpc              \* where the archive function is

vars == <<config, state, cf_client, s3_client, pc, step, i, j, elapsedSeconds,
          stackOutputs, polled, slept, invoked, statuses, calls, exhausted,
          exception, result, exitCode, tree, excludeDirs, addInit, libs,
          includeLibs, excludeLibs, archive, before, fileIndex, zpc>>

zipVars  == <<tree, excludeDirs, addInit, libs, includeLibs, excludeLibs,
              archive, before, fileIndex, zpc>>
loopVars == <<i, j, elapsedSeconds, stackOutputs, polled, slept>>
selfVars == <<state, cf_client, s3_client>>
endVars  == <<exception, result, exitCode, exhausted>>

\* an option lookup that never reads the configuration
OptionDefaultOnly(name) == DEFAULTS[name]

\* config.get("options",{}).get(name, DEFAULTS_...)
Option(name) ==
  IF name \in DOMAIN config.options THEN config.options[name] ELSE DEFAULTS[name]

\* a step list that provisions the stacks before it uploads the packages
StepsCreateBeforeUpload ==
  <<"run_tests", "make_packages", "init_aws", "create_stacks",
    "upload_packages_to_s3", "collect_stack_outputs", "upload_static_artifacts">>

\* a list of steps that creates the clients after the package upload
StepsInitAfterUpload ==
  <<"run_tests", "make_packages", "upload_packages_to_s3", "init_aws",
    "create_stacks", "collect_stack_outputs", "upload_static_artifacts">>

\* _get_deploy_steps
Steps ==
  <<"run_tests", "make_packages", "init_aws", "upload_packages_to_s3",
    "create_stacks", "collect_stack_outputs", "upload_static_artifacts">>

\* AwsDeployExpert.__init__, before deploy() is called
Constructed ==
  /\ state = EmptyDict
  /\ cf_client = None
  /\ s3_client = None
  /\ pc = "apply"
  /\ step = 1
  /\ i = 1
  /\ j = 1
  /\ elapsedSeconds = 0
  /\ stackOutputs = NoneVal
  /\ polled = <<>>
  /\ slept = 0
  /\ invoked = <<>>
  /\ statuses = <<>>
  /\ calls = <<>>
  /\ exhausted = {}
  /\ exception = None
  /\ result = None
  /\ exitCode = -1

\* no archive function is running
Idle ==
  /\ tree = <<>>
  /\ excludeDirs = <<>>
  /\ addInit = FALSE
  /\ libs = <<>>
  /\ includeLibs = <<>>
  /\ excludeLibs = <<>>
  /\ archive = <<>>
  /\ before = <<>>
  /\ fileIndex = 1
  /\ zpc = "idle"

Init ==
  /\ config \in Configs
  /\ Constructed
  /\ Idle

\* ------------------------------------------------------------ deploy
\* a deploy() that never breaks out of its loop
DeployNeverBreaks(status) == FALSE

\* deploy(): "if status == Status.FAILED: break"
DeployBreaks(status) == status = "FAILED"

\* deploy(): step.apply() is entered for the step the for loop is at
Apply(name) ==
  /\ pc = "apply"
  /\ step \in 1..Len(Steps)
  /\ Steps[step] = name
  /\ invoked' = Append(invoked, name)

\* deploy(): the step returned `status`; break, or go on to the next step
Return(status) ==
  /\ statuses' = Append(statuses, status)
  /\ IF DeployBreaks(status) \/ step = Len(Steps)
       THEN pc' = "finished" /\ step' = step
       ELSE pc' = "apply" /\ step' = step + 1

\* an exception leaves the step; nothing in deploy() or main() catches it
Raise(e) ==
  /\ pc' = "raised"
  /\ exception' = e
  /\ UNCHANGED <<step, statuses, result, exitCode, exhausted>>

\* a call made while the step at `step` runs; `to` is the bucket where one is
\* named, `answer` is "ok" or the exception the call raised
Call(fn, arg) ==
  [step |-> Steps[step], fn |-> fn, arg |-> arg, to |-> None, answer |-> "ok"]

\* the same call, answered by the exception e
Failing(call, e) == [call EXCEPT !.answer = e]

\* deploy(): after the loop
DeployReturnValue == "OK"

DeployReturn ==
  /\ pc = "finished"
  /\ result' = DeployReturnValue
  /\ pc' = "returned"
  /\ UNCHANGED <<zipVars, config, selfVars, step, loopVars, invoked, statuses, calls,
                 exception, exitCode, exhausted>>

\* example.py main(): return 0 if status == Status.OK else 1
Main ==
  /\ pc = "returned"
  /\ exitCode' = IF result = "OK" THEN 0 ELSE 1
  /\ pc' = "exited"
  /\ UNCHANGED <<zipVars, config, selfVars, step, loopVars, invoked, statuses, calls,
                 exception, result, exhausted>>

\* ---------------------------------------------------------- _run_tests
RunTests ==
  /\ Apply("run_tests")
  /\ IF ~Option("runUnitTests")
       THEN Return("SKIPPED") /\ UNCHANGED calls
       ELSE IF Falsy(config.sourcePath)
         THEN Return("FAILED") /\ UNCHANGED calls
         ELSE \E passed \in BOOLEAN :
                /\ calls' = Append(calls, Call("runUnitTests", config.sourcePath))
                /\ Return(IF passed THEN "OK" ELSE "FAILED")
  /\ UNCHANGED <<zipVars, config, selfVars, loopVars, endVars>>

\* ----------------------------------------------------------- _init_aws
InitAws ==
  /\ Apply("init_aws")
  /\ cf_client' = "cloudformation"
  /\ s3_client' = "s3"
  /\ Return("OK")
  /\ UNCHANGED <<zipVars, config, state, loopVars, calls, endVars>>

\* ------------------------------------------------------ _make_packages
\* makePySrcPackage: writes the archive and returns its name
makePySrcPackage(zipPackageName) == zipPackageName

MakePackages ==
  /\ Apply("make_packages")
  /\ IF ~Option("makePackages")
       THEN Return("SKIPPED") /\ UNCHANGED i
       ELSE IF Falsy(config.sourcePath)
         THEN Return("FAILED") /\ UNCHANGED i
         ELSE /\ pc' = "make_packages"
              /\ i' = 1
              /\ UNCHANGED <<step, statuses>>
  /\ UNCHANGED <<zipVars, config, selfVars, j, elapsedSeconds, stackOutputs, polled,
                 slept, calls, endVars>>

\* one pass of "for package in packages": the archive, then its libraries
MakePackage ==
  /\ pc = "make_packages"
  /\ i <= Len(config.packages)
  /\ LET packageName == config.packages[i].name
         response    == makePySrcPackage(packageName)
         built       == Append(calls, Call("makePySrcPackage", packageName))
     IN  IF Falsy(packageName)
           THEN \* zipfile.ZipFile(None, 'w') cannot write its end record
                /\ calls' = Append(calls, Failing(Call("makePySrcPackage", packageName),
                                                  "AttributeError"))
                /\ Raise("AttributeError")
                /\ UNCHANGED i
           ELSE IF Falsy(response)
             THEN /\ calls' = built
                  /\ Return("FAILED")
                  /\ UNCHANGED <<i, exception, result, exitCode, exhausted>>
             ELSE /\ calls' = IF Falsy(config.libPath) THEN built
                              ELSE Append(built, Call("addPackageLibs", packageName))
                  /\ i' = i + 1
                  /\ UNCHANGED <<pc, step, statuses, endVars>>
  /\ UNCHANGED <<zipVars, config, selfVars, j, elapsedSeconds, stackOutputs, polled,
                 slept, invoked>>

MakePackagesEnd ==
  /\ pc = "make_packages"
  /\ i > Len(config.packages)
  /\ Return("OK")
  /\ UNCHANGED <<zipVars, config, selfVars, loopVars, invoked, calls, endVars>>

\* --------------------------------------- _upload_packages_to_s3_bucket
UploadPackages ==
  /\ Apply("upload_packages_to_s3")
  /\ IF ~Option("uploadPackages")
       THEN Return("SKIPPED") /\ UNCHANGED i
       ELSE /\ pc' = "upload_packages_to_s3"
            /\ i' = 1
            /\ UNCHANGED <<step, statuses>>
  /\ UNCHANGED <<zipVars, config, selfVars, j, elapsedSeconds, stackOutputs, polled,
                 slept, calls, endVars>>

\* one pass of "for package in packages"; upload_file answers or raises
UploadPackage ==
  /\ pc = "upload_packages_to_s3"
  /\ i <= Len(config.packages)
  /\ LET package == config.packages[i]
     IN  IF Falsy(package.name) \/ Falsy(package.srcS3Bucket) \/ Falsy(package.srcS3Key)
           THEN /\ Return("FAILED")
                /\ UNCHANGED <<i, calls, exception, result, exitCode, exhausted>>
           ELSE LET upload == Call("uploadFileToS3Bucket", package.name)
                IN  \/ /\ calls' = Append(calls, upload)
                       /\ i' = i + 1
                       /\ UNCHANGED <<pc, step, statuses, endVars>>
                    \/ /\ calls' = Append(calls, Failing(upload, "ClientError"))
                       /\ Raise("ClientError")
                       /\ UNCHANGED i
  /\ UNCHANGED <<zipVars, config, selfVars, j, elapsedSeconds, stackOutputs, polled,
                 slept, invoked>>

UploadPackagesEnd ==
  /\ pc = "upload_packages_to_s3"
  /\ i > Len(config.packages)
  /\ Return("OK")
  /\ UNCHANGED <<zipVars, config, selfVars, loopVars, invoked, calls, endVars>>

\* ------------------------------------------------------ _create_stacks
\* what _create_stacks returns after its for loop: it has no return statement
CreateStacksReturnValue == None

CreateStacks ==
  /\ Apply("create_stacks")
  /\ IF ~Option("createStacks")
       THEN Return("SKIPPED") /\ UNCHANGED i
       ELSE /\ pc' = "create_stacks"
            /\ i' = 1
            /\ UNCHANGED <<step, statuses>>
  /\ UNCHANGED <<zipVars, config, selfVars, j, elapsedSeconds, stackOutputs, polled,
                 slept, calls, endVars>>

\* a pass that submits the stack and does not wait for it
CreateStackNoWait ==
  /\ pc = "create_stacks"
  /\ i <= Len(config.stacks)
  /\ calls' = Append(calls, [step |-> "create_stacks", fn |-> "createStack",
                             arg |-> config.stacks[i].name, to |-> "None",
                             answer |-> "ok"])
  /\ i' = i + 1
  /\ UNCHANGED <<zipVars, config, state, cf_client, s3_client, pc, step, j,
                 elapsedSeconds, stackOutputs, polled, slept, invoked, statuses,
                 exhausted, exception, result, exitCode>>

\* one pass of "for stack in stacks": createStack, then waitCreateStackComplete
\* (the template and parameter files are taken to be readable).
\* create_stack answers or raises; the waiter returns when the stack is
\* complete and raises WaiterError when its attempts are used up.
CreateStack ==
  /\ pc = "create_stacks"
  /\ i <= Len(config.stacks)
  /\ LET stack   == config.stacks[i]
         create  == Call("createStack", stack.name)
         wait    == Call("waitCreateStackComplete", stack.name)
     IN  IF Falsy(stack.name) \/ Falsy(stack.templatePath) \/ Falsy(stack.region)
           THEN /\ Return("FAILED")
                /\ UNCHANGED <<i, calls, exception, result, exitCode, exhausted>>
           ELSE \/ /\ calls' = Append(calls, Failing(create, "ClientError"))
                   /\ Raise("ClientError")
                   /\ UNCHANGED i
                \/ /\ calls' = calls \o <<create, Failing(wait, "WaiterError")>>
                   /\ Raise("WaiterError")
                   /\ UNCHANGED i
                \/ /\ calls' = calls \o <<create, wait>>
                   /\ i' = i + 1
                   /\ UNCHANGED <<pc, step, statuses, endVars>>
  /\ UNCHANGED <<zipVars, config, selfVars, j, elapsedSeconds, stackOutputs, polled,
                 slept, invoked>>

CreateStacksEnd ==
  /\ pc = "create_stacks"
  /\ i > Len(config.stacks)
  /\ Return(CreateStacksReturnValue)
  /\ UNCHANGED <<zipVars, config, selfVars, loopVars, invoked, calls, endVars>>

\* ---------------------------------------------- _collect_stack_outputs
\* dict.update({k: v})
Update(d, k, v) == [x \in DOMAIN d \cup {k} |-> IF x = k THEN v ELSE d[x]]

CollectStackOutputs ==
  /\ Apply("collect_stack_outputs")
  /\ IF ~Option("collectStackOutputs")
       THEN Return("SKIPPED") /\ UNCHANGED <<i, state>>
       ELSE /\ state' = Update(state, "stacks", EmptyDict)
            /\ pc' = "collect_stack_outputs"
            /\ i' = 1
            /\ UNCHANGED <<step, statuses>>
  /\ UNCHANGED <<zipVars, config, cf_client, s3_client, j, elapsedSeconds, stackOutputs,
                 polled, slept, calls, endVars>>

\* "for stack in stacks": getStackOutputs is called, its locals initialised
CollectStack ==
  /\ pc = "collect_stack_outputs"
  /\ i <= Len(config.stacks)
  /\ calls' = Append(calls, Call("getStackOutputs", config.stacks[i].name))
  /\ elapsedSeconds' = 0
  /\ stackOutputs' = NoneVal
  /\ polled' = <<>>
  /\ slept' = 0
  /\ pc' = "getStackOutputs"
  /\ UNCHANGED <<zipVars, config, selfVars, step, i, j, invoked, statuses, endVars>>

\* a loop that gives up one sleep interval before the budget is used
PollAgainStopsEarly(elapsed) == elapsed + SleepSeconds < Timeout

\* a loop that polls once more when the budget is exactly used up
PollAgainInclusive(elapsed) == elapsed <= Timeout

\* getStackOutputs: "while elapsedSeconds < timeoutSeconds"
PollAgain(elapsed) == elapsed < Timeout

\* getStackOutputs: "if status == AWS_CLOUDFORMATION_CREATE_COMPLETE"
IsComplete(status) == status = AWS_CLOUDFORMATION_CREATE_COMPLETE

\* a loop that sleeps and retries on every status that is not complete
NotCompleteIsInProgress(status) == status # AWS_CLOUDFORMATION_CREATE_COMPLETE

\* getStackOutputs: "elif status == AWS_CLOUDFORMATION_CREATE_IN_PROGRESS"
IsInProgress(status) == status = AWS_CLOUDFORMATION_CREATE_IN_PROGRESS

\* getStackOutputs: one pass of the while loop.  describe_stacks raises, or
\* answers a description whose status decides: break, sleep, or raise.
GetStackOutputsPoll ==
  /\ pc = "getStackOutputs"
  /\ PollAgain(elapsedSeconds)
  /\ \/ /\ Raise("ClientError")
        /\ UNCHANGED <<elapsedSeconds, stackOutputs, polled, slept>>
     \/ \E stackDesc \in Descriptions :
          /\ polled' = Append(polled, stackDesc)
          /\ IF IsComplete(stackDesc.StackStatus)
               THEN /\ stackOutputs' = Some(stackDesc.Outputs)
                    /\ pc' = "getStackOutputs_return"
                    /\ UNCHANGED <<elapsedSeconds, slept, step, statuses, endVars>>
               ELSE IF IsInProgress(stackDesc.StackStatus)
                 THEN /\ elapsedSeconds' = elapsedSeconds + SleepSeconds
                      /\ slept' = slept + 1
                      /\ UNCHANGED <<pc, stackOutputs, step, statuses, endVars>>
                 ELSE /\ Raise("TypeError")
                      /\ UNCHANGED <<elapsedSeconds, stackOutputs, slept>>
  /\ UNCHANGED <<zipVars, config, selfVars, i, j, invoked, calls>>

\* getStackOutputs returns stackOutputs, after the break or when the loop
\* condition fails, and its locals are gone; _collect_stack_outputs records
\* the value under the stack's name
GetStackOutputsReturn ==
  /\ \/ pc = "getStackOutputs_return"
     \/ pc = "getStackOutputs" /\ ~PollAgain(elapsedSeconds)
  /\ state' = Update(state, "stacks",
                     Update(state["stacks"], config.stacks[i].name,
                            [outputs |-> stackOutputs]))
  /\ exhausted' = IF pc = "getStackOutputs"
                    THEN exhausted \cup {config.stacks[i].name} ELSE exhausted
  /\ i' = i + 1
  /\ pc' = "collect_stack_outputs"
  /\ elapsedSeconds' = 0
  /\ stackOutputs' = NoneVal
  /\ polled' = <<>>
  /\ slept' = 0
  /\ UNCHANGED <<zipVars, config, cf_client, s3_client, step, j, invoked, statuses,
                 calls, exception, result, exitCode>>

CollectStackOutputsEnd ==
  /\ pc = "collect_stack_outputs"
  /\ i > Len(config.stacks)
  /\ Return("OK")
  /\ UNCHANGED <<zipVars, config, selfVars, loopVars, invoked, calls, endVars>>

\* --------------------------------------------- _upload_static_artifacts
\* self.state.get("stacks",{}).get(stackName,{}).get("outputs",None)
RecordedOutputs(stackName) ==
  IF "stacks" \notin DOMAIN state THEN NoneVal
  ELSE IF stackName \notin DOMAIN state["stacks"] THEN NoneVal
  ELSE state["stacks"][stackName].outputs

\* [x["OutputValue"] for x in outputs if x["OutputKey"] == outputKey]
MatchingValues(outputs, outputKey) ==
  LET hits == SelectSeq(outputs, LAMBDA x : x.OutputKey = outputKey)
  IN  [n \in 1..Len(hits) |-> hits[n].OutputValue]

\* value.split(":")[-1], a value being the sequence of its ":"-separated parts
LastPart(value) == value[Len(value)]

UploadStaticArtifacts ==
  /\ Apply("upload_static_artifacts")
  /\ IF ~Option("uploadStaticArtifacts")
       THEN Return("SKIPPED") /\ UNCHANGED i
       ELSE /\ pc' = "upload_static_artifacts"
            /\ i' = 1
            /\ UNCHANGED <<step, statuses>>
  /\ UNCHANGED <<zipVars, config, selfVars, j, elapsedSeconds, stackOutputs, polled,
                 slept, calls, endVars>>

\* one pass of "for artifact in staticArtifacts", up to the call of
\* uploadDirectoryToS3Bucket
UploadStaticArtifact ==
  /\ pc = "upload_static_artifacts"
  /\ i <= Len(config.staticArtifacts)
  /\ LET artifact == config.staticArtifacts[i]
         outputs  == RecordedOutputs(artifact.stackNameForS3Bucket)
         values   == MatchingValues(outputs.val, artifact.outputKeyForS3Bucket)
     IN  IF \/ Falsy(artifact.staticPath)
            \/ Falsy(artifact.stackNameForS3Bucket)
            \/ Falsy(artifact.outputKeyForS3Bucket)
           THEN /\ Return("FAILED")
                /\ UNCHANGED <<i, j, calls, exception, result, exitCode, exhausted>>
           ELSE IF FalsyList(outputs)
             THEN /\ i' = i + 1
                  /\ UNCHANGED <<pc, step, statuses, j, calls, endVars>>
             ELSE IF values = <<>>
               THEN /\ Raise("IndexError")
                    /\ UNCHANGED <<i, j, calls>>
               ELSE /\ calls' = Append(calls, [Call("uploadDirectoryToS3Bucket",
                                                    artifact.staticPath)
                                               EXCEPT !.to = LastPart(values[1])])
                    /\ j' = 1
                    /\ pc' = "uploadDirectoryToS3Bucket"
                    /\ UNCHANGED <<i, step, statuses, endVars>>
  /\ UNCHANGED <<zipVars, config, selfVars, elapsedSeconds, stackOutputs, polled, slept,
                 invoked>>

\* a walk that goes on to the next file when an upload has raised
UploadDirectoryBestEffort ==
  /\ pc = "uploadDirectoryToS3Bucket"
  /\ j <= Len(StaticFiles)
  /\ LET upload == Call("uploadFileToS3Bucket", StaticFiles[j])
     IN  \/ calls' = Append(calls, upload)
         \/ calls' = Append(calls, Failing(upload, "ClientError"))
  /\ j' = j + 1
  /\ UNCHANGED <<zipVars, config, selfVars, step, pc, i, elapsedSeconds, stackOutputs,
                 polled, slept, invoked, statuses, endVars>>

\* uploadDirectoryToS3Bucket: one file of the walk; upload_file answers or raises
UploadDirectoryFile ==
  /\ pc = "uploadDirectoryToS3Bucket"
  /\ j <= Len(StaticFiles)
  /\ LET upload == Call("uploadFileToS3Bucket", StaticFiles[j])
     IN  \/ /\ calls' = Append(calls, upload)
            /\ j' = j + 1
            /\ UNCHANGED <<pc, step, statuses, endVars>>
         \/ /\ calls' = Append(calls, Failing(upload, "ClientError"))
            /\ Raise("ClientError")
            /\ UNCHANGED j
  /\ UNCHANGED <<zipVars, config, selfVars, i, elapsedSeconds, stackOutputs, polled,
                 slept, invoked>>

\* uploadDirectoryToS3Bucket returns; the for loop goes to the next artifact
UploadDirectoryReturn ==
  /\ pc = "uploadDirectoryToS3Bucket"
  /\ j > Len(StaticFiles)
  /\ i' = i + 1
  /\ pc' = "upload_static_artifacts"
  /\ UNCHANGED <<zipVars, config, selfVars, step, j, elapsedSeconds, stackOutputs,
                 polled, slept, invoked, statuses, calls, endVars>>

UploadStaticArtifactsEnd ==
  /\ pc = "upload_static_artifacts"
  /\ i > Len(config.staticArtifacts)
  /\ Return("OK")
  /\ UNCHANGED <<zipVars, config, selfVars, loopVars, invoked, calls, endVars>>

Next ==
  \/ RunTests
  \/ MakePackages
  \/ MakePackage
  \/ MakePackagesEnd
  \/ InitAws
  \/ UploadPackages
  \/ UploadPackage
  \/ UploadPackagesEnd
  \/ CreateStacks
  \/ CreateStack
  \/ CreateStacksEnd
  \/ CollectStackOutputs
  \/ CollectStack
  \/ GetStackOutputsPoll
  \/ GetStackOutputsReturn
  \/ CollectStackOutputsEnd
  \/ UploadStaticArtifacts
  \/ UploadStaticArtifact
  \/ UploadDirectoryFile
  \/ UploadDirectoryReturn
  \/ UploadStaticArtifactsEnd
  \/ DeployReturn
  \/ Main

Spec == Init /\ [][Next]_vars

\* ------------------------------- runs over items with missing fields
\* the n-th package, stack and artifact with every choice of fields left out
PackageVariants(n) ==
  { [name |-> a, srcS3Bucket |-> b, srcS3Key |-> c] :
    a \in {None, PackageNames[n]}, b \in {None, "srcbucket"}, c \in {None, "key"} }

StackVariants(n) ==
  { [name |-> a, templatePath |-> b, region |-> c] :
    a \in {None, StackNames[n]}, b \in {None, "template.json"}, c \in {None, "region"} }

ArtifactVariants(n) ==
  { [staticPath |-> a, stackNameForS3Bucket |-> b, outputKeyForS3Bucket |-> c] :
    a \in {None, StaticPaths[n]}, b \in {None, StackNames[1]}, c \in {None, BucketKey} }

\* a complete first item followed by any second item; the test and package
\* steps on or off, the other steps on
FieldConfigs ==
  { [ options         |-> o,
      sourcePath      |-> p.sourcePath,
      libPath         |-> p.libPath,
      packages        |-> <<CHOOSE x \in PackageSpecs(1) : ~Falsy(x.srcS3Bucket), pk>>,
      stacks          |-> <<CHOOSE x \in StackSpecs(1) : ~Falsy(x.region), st>>,
      staticArtifacts |-> <<CHOOSE x \in ArtifactSpecs(1) :
                              ~Falsy(x.outputKeyForS3Bucket), ar>> ] :
    o \in { f \in [OptionNames -> BOOLEAN] :
              \A n \in OptionNames \ {"runUnitTests", "makePackages"} : f[n] },
    p \in Paths,
    pk \in PackageVariants(2), st \in StackVariants(2), ar \in ArtifactVariants(2) }

InitFields ==
  /\ config \in FieldConfigs
  /\ Constructed
  /\ Idle

SpecFields == InitFields /\ [][Next]_vars

\* ------------------------------------------- runs over several stacks
\* the number of stacks of the configurations below
OrderedStacks == 2

\* every flag on, one package, OrderedStacks valid stacks, one static artifact
OrderedConfigs ==
  { [ options         |-> [o \in OptionNames |-> TRUE],
      sourcePath      |-> "src/",
      libPath         |-> "lib/",
      packages        |-> <<CHOOSE p \in PackageSpecs(1) : ~Falsy(p.srcS3Bucket)>>,
      stacks          |-> [n \in 1..OrderedStacks |->
                            CHOOSE t \in StackSpecs(n) : ~Falsy(t.region)],
      staticArtifacts |-> <<CHOOSE a \in ArtifactSpecs(1) :
                              ~Falsy(a.outputKeyForS3Bucket)>> ] }

InitOrdered ==
  /\ config \in OrderedConfigs
  /\ Constructed
  /\ Idle

SpecOrdered == InitOrdered /\ [][Next]_vars

\* ---------------------------------------------------- makePySrcPackage
\* A string is the sequence of its pieces, "/" being a piece of its own:
\* "src/contests" is <<"src", "/", "con", "tests">>.
COMPILED_PYTHON_EXTENSION == ".pyc"
ZIPFILE_EXTENSION         == ".zip"
INIT_FILENAME             == <<"__init__", ".py">>
PYSRC_DIRS_ALWAYS_EXCLUDE == << <<"tests">>, <<"__pycache__">> >>

\* the pySrcPath argument
pySrcPath == <<"src", "/">>

\* "sub in s" of two strings
Contains(s, sub) ==
  \E n \in 0..(Len(s) - Len(sub)) : SubSeq(s, n + 1, n + Len(sub)) = sub

\* s.endswith(ext)
EndsWith(s, ext) == Len(s) > 0 /\ s[Len(s)] = ext

\* os.path.join(a, b)
Join(a, b) == IF a = <<>> \/ a[Len(a)] = "/" THEN a \o b ELSE a \o <<"/">> \o b

\* s.replace(old, '')
RECURSIVE Replace(_, _)
Replace(s, old) ==
  IF Len(s) < Len(old) THEN s
  ELSE IF SubSeq(s, 1, Len(old)) = old
    THEN Replace(SubSeq(s, Len(old) + 1, Len(s)), old)
    ELSE <<s[1]>> \o Replace(Tail(s), old)

\* _filterFunc
filterFunc(root_, file_, excludeDirs_) ==
  LET foldersToSkip == PYSRC_DIRS_ALWAYS_EXCLUDE \o excludeDirs_
  IN  /\ \A n \in 1..Len(foldersToSkip) : ~Contains(root_, foldersToSkip[n])
      /\ ~EndsWith(file_, COMPILED_PYTHON_EXTENSION)

\* the files a source tree may hold, in the order of the walk: root is the
\* directory as os.walk names it, data the file's content
SourceFiles ==
  << [root |-> <<"src", "/">>,                file |-> <<"main", ".py">>,     data |-> "d1"],
     [root |-> <<"src", "/">>,                file |-> <<"__init__", ".py">>, data |-> "d2"],
     [root |-> <<"src", "/", "tests">>,       file |-> <<"t", ".py">>,        data |-> "d3"],
     [root |-> <<"src", "/", "con", "tests">>, file |-> <<"x", ".py">>,      data |-> "d4"],
     [root |-> <<"src", "/", "pk", "g">>,     file |-> <<"m", ".py">>,        data |-> "d5"],
     [root |-> <<"src", "/", "pk", "g">>,     file |-> <<"m", ".pyc">>,       data |-> "d6"] >>

Trees ==
  { SelectSeq(SourceFiles, LAMBDA f : f \in S) :
    S \in SUBSET {SourceFiles[n] : n \in 1..Len(SourceFiles)} }

\* values of sourceDirsToExclude: none, "pk", "pkg"
ExcludeLists == { <<>>, << <<"pk">> >>, << <<"pk", "g">> >> }

\* every variable of the run but `exception`
runVars == <<config, state, cf_client, s3_client, pc, step, i, j,
             elapsedSeconds, stackOutputs, polled, slept, invoked, statuses,
             calls, exhausted, result, exitCode>>

\* makePySrcPackage is called: ZipFile(zipPackageName, 'w') is empty
InitPackage ==
  /\ config \in OrderedConfigs
  /\ Constructed
  /\ tree \in Trees
  /\ excludeDirs \in ExcludeLists
  /\ addInit \in BOOLEAN
  /\ libs = <<>>
  /\ includeLibs = <<>>
  /\ excludeLibs = <<>>
  /\ archive = <<>>
  /\ before = <<>>
  /\ fileIndex = 1
  /\ zpc = "makePySrcPackage"

\* one file of "for root, dirs, files in os.walk(pySrcPath)"
MakePySrcPackageFile ==
  /\ zpc = "makePySrcPackage"
  /\ fileIndex <= Len(tree)
  /\ LET root == tree[fileIndex].root
         file == tree[fileIndex].file
         arcname == Join(Replace(root, pySrcPath), file)
     IN  archive' = IF filterFunc(root, file, excludeDirs)
                      THEN Append(archive, [name |-> arcname,
                                            data |-> tree[fileIndex].data,
                                            attr |-> "file"])
                      ELSE archive
  /\ fileIndex' = fileIndex + 1
  /\ UNCHANGED <<runVars, exception, tree, excludeDirs, addInit, libs,
                 includeLibs, excludeLibs, before, zpc>>

\* "if addInit: zh.write(os.path.join(pySrcPath, INIT_FILENAME), ...)", which
\* reads the file of that name, and the return
MakePySrcPackageInit ==
  /\ zpc = "makePySrcPackage"
  /\ fileIndex > Len(tree)
  /\ LET inits == SelectSeq(tree, LAMBDA f : /\ f.root = pySrcPath
                                             /\ f.file = INIT_FILENAME)
     IN  IF ~addInit
           THEN /\ zpc' = "makePySrcPackage_returned"
                /\ UNCHANGED <<archive, exception>>
           ELSE IF inits = <<>>
             THEN /\ zpc' = "makePySrcPackage_raised"
                  /\ exception' = "FileNotFoundError"
                  /\ UNCHANGED archive
             ELSE /\ archive' = Append(archive, [name |-> INIT_FILENAME,
                                                 data |-> inits[1].data,
                                                 attr |-> "file"])
                  /\ zpc' = "makePySrcPackage_returned"
                  /\ UNCHANGED exception
  /\ UNCHANGED <<runVars, tree, excludeDirs, addInit, libs, includeLibs,
                 excludeLibs, before, fileIndex>>

NextPackage ==
  \/ MakePySrcPackageFile
  \/ MakePySrcPackageInit

SpecPackage == InitPackage /\ [][NextPackage]_vars

\* ------------------------------------------ addPackageLibs, appendZipToZip
\* z2.open(n): the archive's name table holds the last entry of each name
Open(z2, n) ==
  LET named == {m \in 1..Len(z2) : z2[m].name = n}
      last  == CHOOSE m \in named : \A x \in named : x <= m
  IN  z2[last].data

\* appendZipToZip: for every name of z2.namelist() an entry is written to z1
\* with what z2.open(name) reads, mode 0o777
appendZipToZip(z1, z2) ==
  z1 \o [m \in 1..Len(z2) |-> [name |-> z2[m].name,
                               data |-> Open(z2, z2[m].name),
                               attr |-> "0o777"]]

\* "x in list"
In(x, list) == \E m \in 1..Len(list) : list[m] = x

\* the files a library directory may hold: two archives, with one or two
\* entries, of equal or different names, and a file that is no archive
Lib1 ==
  { [file |-> <<"l1", ".zip">>, entries |-> e] :
    e \in { << [name |-> <<"a", ".py">>, data |-> "one"] >>,
            << [name |-> <<"a", ".py">>, data |-> "one"],
               [name |-> <<"b", ".py">>, data |-> "two"] >>,
            << [name |-> <<"a", ".py">>, data |-> "one"],
               [name |-> <<"a", ".py">>, data |-> "two"] >> } }

Lib2 ==
  { [file |-> <<"l2", ".zip">>, entries |-> e] :
    e \in { << [name |-> <<"c", ".py">>, data |-> "three"] >>,
            << [name |-> <<"a", ".py">>, data |-> "three"] >> } }

Notes == [file |-> <<"notes", ".txt">>, entries |-> <<>>]

\* os.walk(pyLibsPath): the files come in either order
LibWalks ==
  UNION { { <<a, b>>, <<b, a>>, <<a, Notes, b>> } : a \in Lib1, b \in Lib2 }

\* values of libsToInclude and libsToExclude
LibLists == { <<>>, << <<"l1", ".zip">> >>, << <<"l2", ".zip">> >> }

\* the package made before the libraries are added
Packages ==
  { <<>>,
    << [name |-> <<"main", ".py">>, data |-> "d1", attr |-> "file"] >>,
    << [name |-> <<"a", ".py">>, data |-> "zero", attr |-> "file"] >> }

InitLibs ==
  /\ config \in OrderedConfigs
  /\ Constructed
  /\ tree = <<>>
  /\ excludeDirs = <<>>
  /\ addInit = FALSE
  /\ libs \in LibWalks
  /\ includeLibs \in LibLists
  /\ excludeLibs \in LibLists
  /\ archive \in Packages
  /\ before = archive
  /\ fileIndex = 1
  /\ zpc = "addPackageLibs"

\* one file of "for root, dirs, files in os.walk(pyLibsPath)"
AddPackageLib ==
  /\ zpc = "addPackageLibs"
  /\ fileIndex <= Len(libs)
  /\ LET file == libs[fileIndex].file
     IN  archive' =
           IF ~EndsWith(file, ZIPFILE_EXTENSION)
             THEN archive
             ELSE IF \/ includeLibs # <<>> /\ ~In(file, includeLibs)
                     \/ excludeLibs # <<>> /\ In(file, excludeLibs)
               THEN archive
               ELSE appendZipToZip(archive, libs[fileIndex].entries)
  /\ fileIndex' = fileIndex + 1
  /\ UNCHANGED <<runVars, exception, tree, excludeDirs, addInit, libs,
                 includeLibs, excludeLibs, before, zpc>>

\* "return Status.OK"
AddPackageLibsReturn ==
  /\ zpc = "addPackageLibs"
  /\ fileIndex > Len(libs)
  /\ zpc' = "addPackageLibs_returned"
  /\ UNCHANGED <<runVars, exception, tree, excludeDirs, addInit, libs,
                 includeLibs, excludeLibs, archive, before, fileIndex>>

NextLibs ==
  \/ AddPackageLib
  \/ AddPackageLibsReturn

SpecLibs == InitLibs /\ [][NextLibs]_vars

\* ============================================================== claims
Returned == pc \in {"returned", "exited"}

FailedAt == {k \in 1..Len(statuses) : statuses[k] = "FAILED"}

\* the steps in the order the specification fixes
FixedOrder ==
  <<"run_tests", "make_packages", "init_aws", "upload_packages_to_s3",
    "create_stacks", "collect_stack_outputs", "upload_static_artifacts">>

\* C1: no step is applied after a step returned Failed: the applied steps are
\* always a prefix of the step list that ends at the first Failed step, and
\* when deploy() returns they are that prefix exactly (the whole list when no
\* step returned Failed).
C1_HaltsAtFirstFailed ==
  /\ Len(invoked) <= Len(Steps)
  /\ \A k \in 1..Len(invoked) : invoked[k] = Steps[k]
  /\ Len(statuses) <= Len(invoked)
  /\ \A k \in FailedAt : Len(invoked) = k
  /\ Returned =>
       /\ Len(statuses) = Len(invoked)
       /\ Len(invoked) = IF FailedAt = {} THEN Len(Steps)
                         ELSE CHOOSE k \in FailedAt : \A m \in FailedAt : k <= m

\* a run that deploy() has returned from and that a step in mid-list failed
C1_Witness ==
  /\ Returned
  /\ \E k \in FailedAt : 2 <= k /\ k < Len(Steps) /\ Len(invoked) = k

\* C2: deploy() returns FAILED when a step returned Failed and OK when none
\* did, and main()'s exit code is non-zero in the first case, 0 in the second.
C2_ResultReflectsFailure ==
  /\ Returned => result = (IF FailedAt = {} THEN "OK" ELSE "FAILED")
  /\ pc = "exited" => (exitCode = 0 <=> FailedAt = {})

PackageUploads ==
  {n \in 1..Len(calls) : calls[n].fn = "uploadFileToS3Bucket"
                         /\ calls[n].step = "upload_packages_to_s3"}
StackCreations == {n \in 1..Len(calls) : calls[n].fn = "createStack"}
StaticUploads ==
  {n \in 1..Len(calls) : calls[n].step = "upload_static_artifacts"}

HasReturned(name) ==
  \E k \in 1..Len(statuses) : invoked[k] = name

\* C3: the steps are applied in the fixed order, each at most once; every
\* package upload precedes every createStack, and a static-artifact upload is
\* made only once the output-collection step has returned.
C3_FixedOrder ==
  /\ Len(invoked) <= Len(FixedOrder)
  /\ \A k \in 1..Len(invoked) : invoked[k] = FixedOrder[k]
  /\ \A u \in PackageUploads : \A c \in StackCreations : u < c
  /\ \A c \in StackCreations :
       HasReturned("upload_packages_to_s3") /\ calls[c].step = "create_stacks"
  /\ StaticUploads # {} => HasReturned("collect_stack_outputs")

\* a finished run that uploaded a package, created a stack and uploaded a
\* static file
C3_Witness ==
  /\ pc = "exited"
  /\ PackageUploads # {}
  /\ StackCreations # {}
  /\ \E n \in StaticUploads : calls[n].fn = "uploadFileToS3Bucket"

\* the option that guards each flagged step
FlagOf ==
  [run_tests               |-> "runUnitTests",
   make_packages           |-> "makePackages",
   upload_packages_to_s3   |-> "uploadPackages",
   create_stacks           |-> "createStacks",
   collect_stack_outputs   |-> "collectStackOutputs",
   upload_static_artifacts |-> "uploadStaticArtifacts"]

\* the flag as the configuration gives it; absent, only uploadStaticArtifacts
\* is off
FlagIsOff(o) ==
  IF o \in DOMAIN config.options THEN ~config.options[o]
  ELSE o = "uploadStaticArtifacts"

AboutToSkip ==
  /\ pc = "apply"
  /\ step \in 1..Len(Steps)
  /\ Steps[step] \in DOMAIN FlagOf
  /\ FlagIsOff(FlagOf[Steps[step]])

\* C4: a flagged step whose flag is off returns Skipped in one move that makes
\* no call (no test run, archive, upload, createStack, describe), leaves
\* run state and the clients as they are, and hands over to the next step.
C4_SkippedStepHasNoEffect ==
  [][ AboutToSkip =>
        /\ invoked' = Append(invoked, Steps[step])
        /\ statuses' = Append(statuses, "SKIPPED")
        /\ calls' = calls
        /\ polled' = polled
        /\ slept' = slept
        /\ state' = state
        /\ cf_client' = cf_client
        /\ s3_client' = s3_client
        /\ exception' = exception
        /\ IF step < Len(Steps)
             THEN pc' = "apply" /\ step' = step + 1
             ELSE pc' = "finished" ]_vars

\* a finished run in which all six flagged steps were skipped
C4_Witness ==
  /\ pc = "exited"
  /\ {k \in 1..Len(statuses) : statuses[k] = "SKIPPED"} =
       {k \in 1..Len(Steps) : Steps[k] \in DOMAIN FlagOf}
  /\ calls = <<>>
  /\ state = EmptyDict

ValidStack(stack) ==
  ~Falsy(stack.name) /\ ~Falsy(stack.templatePath) /\ ~Falsy(stack.region)

\* C5: what a step returns is one of OK, FAILED, SKIPPED; and create_stacks,
\* its flag on and every stack valid and provisioned, returns OK.
C5_StepReturnsStatus ==
  \A k \in 1..Len(statuses) :
    /\ statuses[k] \in Status
    /\ ( /\ invoked[k] = "create_stacks"
         /\ ~FlagIsOff("createStacks")
         /\ \A n \in 1..Len(config.stacks) : ValidStack(config.stacks[n]) )
       => statuses[k] = "OK"

RecordedStacks ==
  IF "stacks" \in DOMAIN state THEN DOMAIN state["stacks"] ELSE {}

StatusOf(name) ==
  IF HasReturned(name)
    THEN statuses[CHOOSE k \in 1..Len(statuses) : invoked[k] = name]
    ELSE None

\* C6: a stack still in progress when the poll budget is used up is a timeout
\* failure: getStackOutputs does not return, nothing is recorded for the
\* stack, collect_stack_outputs does not return OK, the run is not reported OK.
C6_TimeoutIsFailure ==
  \A name \in exhausted :
    /\ name \notin RecordedStacks
    /\ StatusOf("collect_stack_outputs") # "OK"
    /\ result # "OK"
    /\ exitCode # 0

AllInProgress(descs) ==
  \A n \in 1..Len(descs) :
    descs[n].StackStatus = AWS_CLOUDFORMATION_CREATE_IN_PROGRESS

Front(seq) == SubSeq(seq, 1, Len(seq) - 1)

\* k in-progress answers followed by a complete one
InProgressThenComplete(descs) ==
  /\ descs # <<>>
  /\ AllInProgress(Front(descs))
  /\ descs[Len(descs)].StackStatus = AWS_CLOUDFORMATION_CREATE_COMPLETE

\* C7: after k in-progress answers, k within the budget (k * SleepSeconds <
\* Timeout), getStackOutputs has slept k times and asks again; the complete
\* answer that follows ends the loop with exactly that answer's outputs, after
\* k sleeps and k+1 queries.
C7_OutputsAfterKSleeps ==
  /\ ( /\ pc = "getStackOutputs"
       /\ AllInProgress(polled)
       /\ Len(polled) * SleepSeconds < Timeout )
     => /\ slept = Len(polled)
        /\ elapsedSeconds = Len(polled) * SleepSeconds
        /\ PollAgain(elapsedSeconds)
  /\ InProgressThenComplete(polled)
     => /\ pc = "getStackOutputs_return"
        /\ stackOutputs = Some(polled[Len(polled)].Outputs)
        /\ slept = Len(polled) - 1
        /\ elapsedSeconds = slept * SleepSeconds

\* two in-progress answers, then a complete one that carries an output
C7_Witness ==
  /\ pc = "getStackOutputs_return"
  /\ Len(polled) = 3
  /\ slept = 2
  /\ stackOutputs.val # <<>>

Unexpected ==
  {n \in 1..Len(polled) :
     polled[n].StackStatus \notin {AWS_CLOUDFORMATION_CREATE_COMPLETE,
                                   AWS_CLOUDFORMATION_CREATE_IN_PROGRESS}}

\* C8: a status that is neither in-progress nor complete is fatal: it is the
\* last answer asked for, no outputs are returned, nothing is recorded for the
\* stack, the step does not return, static-artifact publication is not
\* applied, and the run is not reported OK.
C8_UnexpectedStatusIsFatal ==
  \A n \in Unexpected :
    /\ n = Len(polled)
    /\ slept = n - 1
    /\ pc = "raised"
    /\ exception = "TypeError"
    /\ stackOutputs = NoneVal
    /\ config.stacks[i].name \notin RecordedStacks
    /\ ~HasReturned("collect_stack_outputs")
    /\ Len(invoked) = Len(statuses) + 1
    /\ invoked[Len(invoked)] = "collect_stack_outputs"
    /\ result # "OK"
    /\ exitCode # 0

\* an unexpected status met after the loop has slept at least once
C8_Witness ==
  /\ Unexpected # {}
  /\ Len(polled) >= 2
  /\ pc = "raised"

WaiterTimeouts ==
  {n \in 1..Len(calls) : calls[n].fn = "waitCreateStackComplete"
                         /\ calls[n].answer = "WaiterError"}

\* C9: the waiter running out of attempts is a failure and not a crash: no
\* further stack is submitted, no exception leaves deploy(), create_stacks
\* returns FAILED, and deploy() returns with the run reported FAILED.
C9_WaiterTimeoutIsFailedStep ==
  \A n \in WaiterTimeouts :
    /\ \A c \in StackCreations : c < n
    /\ pc # "raised"
    /\ StatusOf("create_stacks") = "FAILED"
    /\ Returned => result = "FAILED"

ProviderErrors == {n \in 1..Len(calls) : calls[n].answer = "ClientError"}

\* C10: a provider error raised by create_stack, describe_stacks or
\* upload_file is not retried and does not leave deploy(): the step it
\* occurred in returns FAILED, no later step is applied, and the run is
\* reported FAILED.
C10_ProviderErrorIsFailedStep ==
  /\ exception # "ClientError"
  /\ \A n \in ProviderErrors :
       /\ n = Len(calls)
       /\ pc # "raised"
       /\ StatusOf(calls[n].step) = "FAILED"
       /\ invoked[Len(invoked)] = calls[n].step
       /\ Returned => result = "FAILED"

\* the calls that submit a stack or wait for one
Provisioning ==
  {n \in 1..Len(calls) : calls[n].fn \in {"createStack", "waitCreateStackComplete"}}
Collections == {n \in 1..Len(calls) : calls[n].fn = "getStackOutputs"}

\* the position in the stack list of the stack a call names
StackIndex(n) ==
  CHOOSE k \in 1..Len(config.stacks) : config.stacks[k].name = calls[n].arg

\* C11 as claimed: createStack for stack k+1 is issued only after the
\* completion wait and the output collection for stack k.
C11_CollectedBeforeNextCreate ==
  \A c \in StackCreations :
    StackIndex(c) > 1 =>
      /\ \E w \in Provisioning :
           /\ w < c
           /\ calls[w].fn = "waitCreateStackComplete"
           /\ StackIndex(w) = StackIndex(c) - 1
      /\ \E g \in Collections : g < c /\ StackIndex(g) = StackIndex(c) - 1

\* C11 amended: stacks are submitted one at a time in configuration order,
\* each createStack directly followed by its completion wait, and the next
\* createStack only after that wait returned; outputs are collected afterwards,
\* in configuration order, once every stack has been waited for.
C11_OneStackAtATime ==
  /\ \A c \in StackCreations :
       /\ StackIndex(c) = Cardinality({d \in StackCreations : d <= c})
       /\ calls[c].answer = "ok" =>
            /\ c < Len(calls)
            /\ calls[c + 1].fn = "waitCreateStackComplete"
            /\ calls[c + 1].arg = calls[c].arg
       /\ \A d \in StackCreations :
            c < d => calls[c].answer = "ok" /\ calls[c + 1].answer = "ok" /\ c + 1 < d
  /\ \A g \in Collections :
       /\ StackIndex(g) = Cardinality({h \in Collections : h <= g})
       /\ \A n \in Provisioning : n < g /\ calls[n].answer = "ok"

\* a finished run that created two stacks and then collected from both
C11_Witness ==
  /\ pc = "exited"
  /\ Cardinality(StackCreations) >= 2
  /\ Cardinality(Collections) >= 2

\* the stack has no entry in run state, or an entry without outputs
NothingRecordedFor(stackName) ==
  \/ "stacks" \notin DOMAIN state
  \/ stackName \notin DOMAIN state["stacks"]
  \/ state["stacks"][stackName].outputs.isNone
  \/ state["stacks"][stackName].outputs.val = <<>>

ValidArtifact(artifact) ==
  /\ artifact.staticPath # None
  /\ artifact.stackNameForS3Bucket # None
  /\ artifact.outputKeyForS3Bucket # None

AtArtifactWithoutOutputs ==
  /\ pc = "upload_static_artifacts"
  /\ i <= Len(config.staticArtifacts)
  /\ ValidArtifact(config.staticArtifacts[i])
  /\ NothingRecordedFor(config.staticArtifacts[i].stackNameForS3Bucket)

\* C12: a static-artifact spec whose stack has no recorded outputs is passed
\* over: no call is made for it, the step neither returns nor raises because
\* of it, and the loop goes on to the next spec.
C12_NoOutputsIsNoOp ==
  [][ AtArtifactWithoutOutputs =>
        /\ calls' = calls
        /\ statuses' = statuses
        /\ exception' = exception
        /\ state' = state
        /\ pc' = "upload_static_artifacts"
        /\ i' = i + 1 ]_vars

\* a finished run whose static-artifact step, its flag on, met a spec whose
\* stack was recorded with an empty output list, uploaded nothing, returned OK
C12_Witness ==
  /\ pc = "exited"
  /\ ~FlagIsOff("uploadStaticArtifacts")
  /\ StatusOf("upload_static_artifacts") = "OK"
  /\ StaticUploads = {}
  /\ \E n \in 1..Len(config.staticArtifacts) :
       LET artifact == config.staticArtifacts[n]
       IN  /\ ValidArtifact(artifact)
           /\ artifact.stackNameForS3Bucket \in RecordedStacks
           /\ state["stacks"][artifact.stackNameForS3Bucket].outputs = Some(<<>>)

Missing(x) == x = None

FailsWithoutCall ==
  /\ statuses' = Append(statuses, "FAILED")
  /\ calls' = calls
  /\ polled' = polled
  /\ exception' = exception
  /\ pc' = "finished"

\* C13: a missing required field makes the step return FAILED, at once and
\* with no call for the offending item: sourcePath in run_tests and
\* make_packages; name, bucket or key of a package in upload_packages_to_s3;
\* name, templatePath or region of a stack in create_stacks; path, stack name
\* or output key of a static artifact in upload_static_artifacts.
C13_MissingFieldFails ==
  [][ /\ ( /\ pc = "apply"
           /\ step \in 1..Len(Steps)
           /\ Steps[step] \in {"run_tests", "make_packages"}
           /\ ~FlagIsOff(FlagOf[Steps[step]])
           /\ Missing(config.sourcePath) )
         => FailsWithoutCall
      /\ ( /\ pc = "upload_packages_to_s3"
           /\ i <= Len(config.packages)
           /\ \/ Missing(config.packages[i].name)
              \/ Missing(config.packages[i].srcS3Bucket)
              \/ Missing(config.packages[i].srcS3Key) )
         => FailsWithoutCall
      /\ ( /\ pc = "create_stacks"
           /\ i <= Len(config.stacks)
           /\ \/ Missing(config.stacks[i].name)
              \/ Missing(config.stacks[i].templatePath)
              \/ Missing(config.stacks[i].region) )
         => FailsWithoutCall
      /\ ( /\ pc = "upload_static_artifacts"
           /\ i <= Len(config.staticArtifacts)
           /\ \/ Missing(config.staticArtifacts[i].staticPath)
              \/ Missing(config.staticArtifacts[i].stackNameForS3Bucket)
              \/ Missing(config.staticArtifacts[i].outputKeyForS3Bucket) )
         => FailsWithoutCall ]_vars

\* a finished run whose create_stacks step created the first stack and
\* returned FAILED at the second, which lacks a field, without a call for it
C13_Witness ==
  /\ pc = "exited"
  /\ StatusOf("create_stacks") = "FAILED"
  /\ Len(config.stacks) = 2
  /\ Missing(config.stacks[2].templatePath)
  /\ Cardinality(StackCreations) = 1
  /\ calls[Len(calls)].fn = "waitCreateStackComplete"

Artifacts == {config.staticArtifacts[n] : n \in 1..Len(config.staticArtifacts)}

KeyPositions(outputs, key) == {n \in 1..Len(outputs) : outputs[n].OutputKey = key}

FirstValue(outputs, key) ==
  LET first == CHOOSE n \in KeyPositions(outputs, key) :
                 \A m \in KeyPositions(outputs, key) : n <= m
  IN  outputs[first].OutputValue

\* C16: the bucket of a static artifact is taken from the first recorded
\* output of its stack whose key equals the artifact's output key; when no
\* recorded output has that key the lookup yields a value, NotFound, instead
\* of raising, and no upload is made for the artifact.
C16_LookupOutput ==
  /\ \A n \in 1..Len(calls) :
       calls[n].fn = "uploadDirectoryToS3Bucket" =>
         \E a \in Artifacts :
           /\ a.staticPath = calls[n].arg
           /\ ~NothingRecordedFor(a.stackNameForS3Bucket)
           /\ LET outputs == state["stacks"][a.stackNameForS3Bucket].outputs.val
                  key     == a.outputKeyForS3Bucket
              IN  /\ KeyPositions(outputs, key) # {}
                  /\ LET value == FirstValue(outputs, key)
                     IN  calls[n].to = value[Len(value)]
  /\ exception # "IndexError"

FailedStaticUploads ==
  {n \in StaticUploads : /\ calls[n].fn = "uploadFileToS3Bucket"
                         /\ calls[n].answer # "ok"}

\* C17: in uploadDirectoryToS3Bucket an upload that raises is the last call
\* of the walk: no later file is uploaded, the upload is not made again, the
\* error leaves the function and the step never returns a status.
C17_FailedUploadAbortsWalk ==
  \A n \in FailedStaticUploads :
    /\ n = Len(calls)
    /\ pc = "raised"
    /\ exception = calls[n].answer
    /\ ~HasReturned("upload_static_artifacts")

\* the first file's upload raised while another file was still to be walked
C17_Witness ==
  /\ Len(StaticFiles) > 1
  /\ \E n \in FailedStaticUploads : calls[n].arg = StaticFiles[1]
  /\ pc = "raised"

ProviderCalls ==
  {"uploadFileToS3Bucket", "uploadDirectoryToS3Bucket", "createStack",
   "waitCreateStackComplete", "getStackOutputs"}

ClientsCreated == cf_client # None /\ s3_client # None

\* C18: the two clients are created by init_aws only, at most once in a run
\* (once in every run that gets to init_aws), and are never replaced; an
\* upload, createStack, wait or describeStack call is issued only in a state
\* where both clients exist, whatever the option flags are.
C18_ClientsCreatedOnce ==
  [][ /\ (cf_client' # cf_client \/ s3_client' # s3_client) =>
            /\ cf_client = None /\ s3_client = None
            /\ ClientsCreated'
            /\ pc = "apply" /\ invoked' = Append(invoked, "init_aws")
            /\ \A k \in 1..Len(invoked) : invoked[k] # "init_aws"
      /\ (calls' # calls /\ calls'[Len(calls')].fn \in ProviderCalls) => ClientsCreated
      /\ polled' \notin {polled, <<>>} => ClientsCreated
      /\ (\E k \in 1..Len(statuses) : invoked[k] = "init_aws") => ClientsCreated ]_vars

\* a stack has been created with the clients of init_aws while the package
\* upload was switched off
C18_Witness ==
  /\ StackCreations # {}
  /\ FlagIsOff("uploadPackages")
  /\ ClientsCreated
  /\ pc = "exited"

InProgressAnswers ==
  {n \in 1..Len(polled) : polled[n].StackStatus = "CREATE_IN_PROGRESS"}

\* C19: getStackOutputs makes at most 10 queries and at most 10 sleeps; every
\* in-progress answer costs exactly one sleep interval of the budget; an
\* answer that is complete or unexpected is the last query made.
C19_PollingIsBounded ==
  /\ Len(polled) <= 10
  /\ slept <= 10
  /\ slept = Cardinality(InProgressAnswers)
  /\ elapsedSeconds = 5 * slept
  /\ elapsedSeconds <= 50
  /\ \A n \in 1..Len(polled) : n \notin InProgressAnswers => n = Len(polled)

\* the whole budget has been used: ten queries, all in progress, ten sleeps
C19_Witness ==
  /\ Len(polled) = 10
  /\ slept = 10
  /\ Cardinality(InProgressAnswers) = 10

ConfiguredStacks == {config.stacks[n].name : n \in 1..Len(config.stacks)}

\* C20: when collect_stack_outputs has returned OK, the state holds an entry
\* for the name of every configured stack and for no other name, and each
\* entry is the output list of a complete answer of describe_stacks.
C20_StateMapsEveryStack ==
  StatusOf("collect_stack_outputs") = "OK" =>
    /\ RecordedStacks = ConfiguredStacks
    /\ \A name \in RecordedStacks :
         /\ ~state["stacks"][name].outputs.isNone
         /\ state["stacks"][name].outputs.val \in OutputLists

\* the directories of a path, "/" separating them
RECURSIVE Segments(_)
Segments(path) ==
  IF path = <<>> THEN <<>>
  ELSE LET cut == IF \E n \in 1..Len(path) : path[n] = "/"
                    THEN CHOOSE n \in 1..Len(path) :
                           path[n] = "/" /\ \A m \in 1..(n - 1) : path[m] # "/"
                    ELSE Len(path) + 1
           rest == Segments(SubSeq(path, cut + 1, Len(path)))
       IN  IF cut = 1 THEN rest ELSE <<SubSeq(path, 1, cut - 1)>> \o rest

\* the directory of a file below the source root, and the file's path there
RelativeDir(f) == SubSeq(f.root, Len(pySrcPath) + 1, Len(f.root))
RelativePath(f) ==
  IF RelativeDir(f) = <<>> THEN f.file ELSE RelativeDir(f) \o <<"/">> \o f.file

ExcludedNames ==
  {<<"tests">>, <<"__pycache__">>} \cup {excludeDirs[n] : n \in 1..Len(excludeDirs)}

LeftOut(f) ==
  \/ \E n \in 1..Len(Segments(RelativeDir(f))) :
       Segments(RelativeDir(f))[n] \in ExcludedNames
  \/ f.file[Len(f.file)] = ".pyc"

EntriesNamed(name) == {n \in 1..Len(archive) : archive[n].name = name}

\* C14: makePySrcPackage produces an archive for every tree; it holds no file
\* below a directory whose name is tests, __pycache__ or a name of the
\* exclude list, and no .pyc file; it holds every other file exactly once at
\* its path relative to the source root; with addInit set it holds
\* __init__.py at its root even if the tree has none.
C14_ArchiveMembership ==
  zpc \in {"makePySrcPackage_returned", "makePySrcPackage_raised"} =>
    /\ zpc = "makePySrcPackage_returned"
    /\ \A n \in 1..Len(tree) :
         Cardinality(EntriesNamed(RelativePath(tree[n])))
           = IF LeftOut(tree[n]) THEN 0 ELSE 1
    /\ addInit => EntriesNamed(<<"__init__", ".py">>) # {}

\* a library file that addPackageLibs does not pass over
Surviving(lib) ==
  /\ lib.file[Len(lib.file)] = ".zip"
  /\ includeLibs # <<>> => \E m \in 1..Len(includeLibs) : includeLibs[m] = lib.file
  /\ excludeLibs # <<>> => \A m \in 1..Len(excludeLibs) : excludeLibs[m] # lib.file

\* the entries of the surviving libraries among the first n files of the walk
RECURSIVE LibraryEntries(_)
LibraryEntries(n) ==
  IF n = 0 THEN <<>>
  ELSE LibraryEntries(n - 1)
         \o (IF Surviving(libs[n]) THEN libs[n].entries ELSE <<>>)

PathAndData(entries) ==
  [m \in 1..Len(entries) |-> [name |-> entries[m].name, data |-> entries[m].data]]

Added == SubSeq(archive, Len(before) + 1, Len(archive))

EntrySet(entries) == {entries[m] : m \in 1..Len(entries)}

\* C15: when addPackageLibs has returned, the archive is the entries it had,
\* unchanged and in their order, followed by every entry of every surviving
\* library archive, equal paths included; so the set of entries is the
\* archive's own with those of the surviving libraries, in whatever order
\* the libraries were walked.
C15_MergeIsAppendOnly ==
  zpc = "addPackageLibs_returned" =>
    /\ SubSeq(archive, 1, Len(before)) = before
    /\ PathAndData(Added) = LibraryEntries(Len(libs))
    /\ EntrySet(PathAndData(archive))
         = EntrySet(PathAndData(before))
             \cup UNION { EntrySet(libs[n].entries) :
                          n \in {m \in 1..Len(libs) : Surviving(libs[m])} }
====
